---- MODULE Spec2Model ----
(***************************************************************************)
(* A model of src/src/App.js: the spreadsheet-to-Word converter.  The pure *)
(* data shaping functions (transposeData, splitIntoColumnPairs, the group  *)
(* name rule, createWordDocument) are operators; the React state and the   *)
(* asynchronous handlers (upload, remove, export) are the state machine.   *)
(*                                                                         *)
(* JavaScript arrays are modelled as sequences.  Operators that take an    *)
(* index take the JavaScript (0-based) index; position k of the JavaScript *)
(* array is element k+1 of the sequence.                                   *)
(***************************************************************************)
EXTENDS Integers, Sequences, FiniteSets, TLC

(***************************************************************************)
(* Bounds of the model.                                                    *)
(***************************************************************************)
MaxRows == 2        \* rows of an input grid of PureSpec
MaxCols == 3        \* longest row of an input grid of PureSpec
MaxApply == 2       \* successive applications of transposeData in PureSpec
MaxUploads == 2     \* calls of handleFilesUpload in a behaviour of Spec
MaxExports == 1     \* calls of the download handlers in a behaviour of Spec

(***************************************************************************)
(* Cell values.  A cell of a decoded sheet is a string, a number, or       *)
(* missing (a hole of the sparse row array, which reads as undefined).     *)
(* One record shape carries the three, so that cells always compare.       *)
(***************************************************************************)
Undef == [t |-> "undefined", s |-> "", n |-> 0]
Str(s) == [t |-> "string", s |-> s, n |-> 0]
Num(n) == [t |-> "number", s |-> "", n |-> n]

Max(S) == CHOOSE m \in S : \A k \in S : k <= m

\* The decimal digit d as a string.
Digit(d) == SubSeq("0123456789", d + 1, d + 1)

\* String(n) / `${n}` for a natural number n.
RECURSIVE NumToStr(_)
NumToStr(n) == IF n < 10 THEN Digit(n) ELSE NumToStr(n \div 10) \o Digit(n % 10)

\* String(v) / `${v}` for a cell value.
ToStr(v) ==
  CASE v.t = "string" -> v.s
    [] v.t = "number" -> NumToStr(v.n)
    [] v.t = "null" -> "null"
    [] OTHER -> "undefined"

\* JavaScript truthiness of a cell value: '' and 0 are falsy, as are null
\* and undefined.
Truthy(v) ==
  CASE v.t = "string" -> v.s # ""
    [] v.t = "number" -> v.n # 0
    [] OTHER -> FALSE

\* row[col]: reading past the end of an array, or a hole, gives undefined.
At(row, col) == IF col + 1 \in 1..Len(row) THEN row[col + 1] ELSE Undef

\* Math.max(...data.map(row => row.length)), for a grid with a row.
maxColsOf(data) == Max({Len(data[r]) : r \in 1..Len(data)})

(***************************************************************************)
(* transposeData (App.js 111-129).                                         *)
(***************************************************************************)
\* A faulty variant: copies the cell whatever it is, so a missing cell
\* stays undefined.
transposeDataNoFill(data) ==
  IF Len(data) = 0 THEN data
  ELSE [col \in 1..maxColsOf(data) |->
          [row \in 1..Len(data) |-> At(data[row], col - 1)]]

\* A faulty variant: tests the cell for truthiness, so a 0 or '' cell is
\* replaced like a missing one.
transposeDataFalsy(data) ==
  IF Len(data) = 0 THEN data
  ELSE [col \in 1..maxColsOf(data) |->
          [row \in 1..Len(data) |->
             IF Truthy(At(data[row], col - 1))
             THEN At(data[row], col - 1) ELSE Str("")]]

transposeData(data) ==
  IF Len(data) = 0 THEN data
  ELSE [col \in 1..maxColsOf(data) |->
          [row \in 1..Len(data) |->
             IF At(data[row], col - 1) # Undef
             THEN At(data[row], col - 1) ELSE Str("")]]

(***************************************************************************)
(* splitIntoColumnPairs (App.js 137-155).                                  *)
(***************************************************************************)
\* A faulty variant: the loop starts at column 0.
splitIntoColumnPairsFromZero(data) ==
  IF Len(data) = 0 THEN <<data>>
  ELSE IF maxColsOf(data) <= 1 THEN <<data>>
  ELSE [col \in 1..maxColsOf(data) |->
          [row \in 1..Len(data) |->
             << IF At(data[row], 0) # Undef THEN At(data[row], 0) ELSE Str(""),
                IF At(data[row], col - 1) # Undef
                THEN At(data[row], col - 1) ELSE Str("") >>]]

\* A faulty variant: a one-column grid is split like any other.
splitIntoColumnPairsNoFallback(data) ==
  IF Len(data) = 0 THEN <<data>>
  ELSE [col \in 1..(maxColsOf(data) - 1) |->
          [row \in 1..Len(data) |->
             << IF At(data[row], 0) # Undef THEN At(data[row], 0) ELSE Str(""),
                IF At(data[row], col) # Undef
                THEN At(data[row], col) ELSE Str("") >>]]

splitIntoColumnPairs(data) ==
  IF Len(data) = 0 THEN <<data>>
  ELSE IF maxColsOf(data) <= 1 THEN <<data>>
  ELSE [col \in 1..(maxColsOf(data) - 1) |->
          [row \in 1..Len(data) |->
             << IF At(data[row], 0) # Undef THEN At(data[row], 0) ELSE Str(""),
                IF At(data[row], col) # Undef
                THEN At(data[row], col) ELSE Str("") >>]]

(***************************************************************************)
(* File names (App.js 32, 46).                                             *)
(***************************************************************************)
Char(s, i) == SubSeq(s, i, i)

UpperCase == "ABCDEFGHIJKLMNOPQRSTUVWXYZ"
LowerCase == "abcdefghijklmnopqrstuvwxyz"

LowerChar(ch) ==
  IF \E k \in 1..Len(UpperCase) : Char(UpperCase, k) = ch
  THEN Char(LowerCase, CHOOSE k \in 1..Len(UpperCase) : Char(UpperCase, k) = ch)
  ELSE ch

RECURSIVE ToLower(_)
ToLower(s) == IF s = "" THEN "" ELSE LowerChar(Char(s, 1)) \o ToLower(Tail(s))

EndsWith(s, suffix) ==
  /\ Len(s) >= Len(suffix)
  /\ SubSeq(s, Len(s) - Len(suffix) + 1, Len(s)) = suffix

\* file.name.match(/\.(xlsx|xls)$/i)
isExcelName(name) ==
  EndsWith(ToLower(name), ".xlsx") \/ EndsWith(ToLower(name), ".xls")

\* file.name.replace(/\.[^/.]+$/, ''): the last dot and what follows it are
\* removed when at least one character follows and none of them is a slash.
stripExtension(name) ==
  LET dots == {p \in 1..Len(name) : Char(name, p) = "."}
  IN  IF dots = {} THEN name
      ELSE LET p == Max(dots)
           IN  IF p < Len(name) /\ \A q \in (p + 1)..Len(name) : Char(name, q) # "/"
               THEN SubSeq(name, 1, p - 1)
               ELSE name

(***************************************************************************)
(* The group name of a column pair (App.js 249, 295, 352):                 *)
(*   columnPairs[i][0]?.[1] || `column${i + 2}`                            *)
(***************************************************************************)
familyName(columnPairs, i) ==
  IF /\ Len(columnPairs[i + 1]) >= 1
     /\ Truthy(At(columnPairs[i + 1][1], 1))
  THEN At(columnPairs[i + 1][1], 1)
  ELSE Str("column" \o NumToStr(i + 2))

(***************************************************************************)
(* createWordDocument (App.js 164-223), up to the call of Packer.toBlob:   *)
(* the document is its title and the texts of its table.                   *)
(***************************************************************************)
\* cell !== null && cell !== undefined ? String(cell) : ''
CellText(cell) ==
  IF cell.t # "null" /\ cell.t # "undefined" THEN ToStr(cell) ELSE ""

\* A faulty variant: the transpose argument is ignored.
createWordDocumentAsIs(fileData, transposeArg, suffix) ==
  [title |-> "Packing Sheet" \o
               (IF Truthy(suffix) THEN " " \o ToStr(suffix) ELSE ""),
   rows |-> [r \in 1..Len(fileData.data) |->
               [c \in 1..Len(fileData.data[r]) |->
                  CellText(fileData.data[r][c])]]]

createWordDocument(fileData, transposeArg, suffix) ==
  LET dataToExport ==
        IF transposeArg THEN transposeData(fileData.data) ELSE fileData.data
  IN  [title |-> "Packing Sheet" \o
                   (IF Truthy(suffix) THEN " " \o ToStr(suffix) ELSE ""),
       rows |-> [r \in 1..Len(dataToExport) |->
                   [c \in 1..Len(dataToExport[r]) |->
                      CellText(dataToExport[r][c])]]]

NoDoc == [title |-> "", rows |-> <<>>]

\* A faulty variant: the handler's transpose flag is handed on, so the pair
\* is transposed at render.
createPairDocumentTransposing(file, pair, transposeFlag, name) ==
  createWordDocument([file EXCEPT !.data = pair], transposeFlag, name)

\* createWordDocument({ ...file, data: columnPairs[j] }, false, familyName)
createPairDocument(file, pair, transposeFlag, name) ==
  createWordDocument([file EXCEPT !.data = pair], FALSE, name)

\* `${file.name}_${familyName}.docx`
splitFileName(file, name) == file.name \o "_" \o ToStr(name) \o ".docx"

\* A faulty variant: no default for an empty name.
singleFileNameNoDefault(mode, file, i) == file.name \o ".docx"

\* `${currentFile.name || 'converted'}.docx` in downloadWordFile,
\* `${file.name || `converted_${i + 1}`}.docx` in the other two handlers.
singleFileName(mode, file, i) ==
  (IF file.name # "" THEN file.name
   ELSE IF mode = "current" THEN "converted"
   ELSE "converted_" \o NumToStr(i + 1)) \o ".docx"

(***************************************************************************)
(* State.                                                                  *)
(***************************************************************************)
VARIABLES
  files,              \* useState([]): the working set of decoded tables
  selectedFileIndex,  \* useState(0)
  transpose,          \* useState(true)
  splitColumns,       \* useState(false)
  uploads,            \* the calls of handleFilesUpload, in call order
  exports,            \* the calls of the three download handlers, in call order
  input,              \* PureSpec: the grid drawn by PureInit
  cur,                \* PureSpec: the grid after nT applications of transposeData
  nT,                 \* PureSpec: the number of applications so far
  pairs,              \* PureSpec: the result of splitIntoColumnPairs(cur)
  splitDone           \* PureSpec: whether pairs holds a result

appVars == <<files, selectedFileIndex, transpose, splitColumns, uploads, exports>>
pureVars == <<input, cur, nT, pairs, splitDone>>
vars == <<appVars, pureVars>>

\* The component's state after construction (App.js 11-15).
AppInit ==
  /\ files = <<>>
  /\ selectedFileIndex = 0
  /\ transpose = TRUE
  /\ splitColumns = FALSE
  /\ uploads = <<>>
  /\ exports = <<>>

PureIdle ==
  /\ input = <<>>
  /\ cur = <<>>
  /\ nT = 0
  /\ pairs = <<>>
  /\ splitDone = FALSE

(***************************************************************************)
(* PureSpec: transposeData and splitIntoColumnPairs applied to the grids   *)
(* XLSX.utils.sheet_to_json(worksheet, {header: 1}) can return: an array   *)
(* of row arrays, each row as long as its last filled cell, the unfilled   *)
(* cells before it being holes.                                            *)
(***************************************************************************)
Fills == {"string", "number", "empty"}

\* The content of the filled cell at JavaScript position (r, c).
FillCell(fill, r, c) ==
  CASE fill = "string" -> Str("r" \o NumToStr(r) \o "c" \o NumToStr(c))
    [] fill = "number" -> Num(10 * r + c)
    [] OTHER -> Str("")

\* The positions that may be holes: all but the last of each row.
Inner(lens) == {rc \in (1..Len(lens)) \X (1..MaxCols) : rc[2] < lens[rc[1]]}

MakeGrid(lens, holes, fill) ==
  [r \in 1..Len(lens) |->
     [c \in 1..lens[r] |->
        IF <<r, c>> \in holes THEN Undef ELSE FillCell(fill, r - 1, c - 1)]]

InputGrids ==
  UNION {UNION {{MakeGrid(lens, holes, fill) : holes \in SUBSET Inner(lens)} :
                  lens \in [1..n -> 0..MaxCols]} : n \in 0..MaxRows, fill \in Fills}

PureInit ==
  /\ AppInit
  /\ input \in InputGrids
  /\ cur = input
  /\ nT = 0
  /\ pairs = <<>>
  /\ splitDone = FALSE

PTranspose ==
  /\ ~splitDone
  /\ nT < MaxApply
  /\ cur' = transposeData(cur)
  /\ nT' = nT + 1
  /\ UNCHANGED <<input, pairs, splitDone, appVars>>

PSplit ==
  /\ ~splitDone
  /\ pairs' = splitIntoColumnPairs(cur)
  /\ splitDone' = TRUE
  /\ UNCHANGED <<input, cur, nT, appVars>>

PureNext == PTranspose \/ PSplit

PureSpec == PureInit /\ [][PureNext]_vars

(***************************************************************************)
(* The files a user can hand to the page.  readable says whether           *)
(* file.arrayBuffer() and XLSX.read succeed on the file; sheet is what     *)
(* sheet_to_json returns for its first sheet.                              *)
(***************************************************************************)
fileA ==
  [name |-> "a.xlsx", readable |-> TRUE,
   sheet |-> << <<Str("Name"), Num(0)>>, <<Str("Age"), Num(30), Num(25)>> >>]

fileNoName ==
  [name |-> ".xlsx", readable |-> TRUE,
   sheet |-> << <<Str("A"), Str("B")>>, <<Str("1"), Str("2")>>, <<Str("3")>> >>]

fileOneColumn ==
  [name |-> "c.XLS", readable |-> TRUE, sheet |-> << <<Str("Only")>> >>]

fileCorrupt == [name |-> "b.xls", readable |-> FALSE, sheet |-> <<>>]

fileText == [name |-> "n.txt", readable |-> TRUE, sheet |-> <<>>]

FileLists ==
  { <<fileA>>, <<fileText, fileNoName, fileCorrupt>>, <<fileOneColumn>> }

(***************************************************************************)
(* handleFilesUpload (App.js 23-61).  The handler runs to its next await   *)
(* (file.arrayBuffer() of the next Excel file) or to its end in one step.  *)
(***************************************************************************)
\* The index of the first Excel file at or after i, or fileList.length.
nextExcel(fileList, i) ==
  IF \E k \in i..(Len(fileList) - 1) : isExcelName(fileList[k + 1].name)
  THEN CHOOSE k \in i..(Len(fileList) - 1) :
         /\ isExcelName(fileList[k + 1].name)
         /\ \A q \in i..(k - 1) : ~isExcelName(fileList[q + 1].name)
  ELSE Len(fileList)

\* A faulty variant: the new tables are put before the ones already there.
UploadCommitPrepending(u) ==
  IF Len(u.newFiles) > 0
  THEN /\ files' = u.newFiles \o files
       /\ selectedFileIndex' = u.filesLength
  ELSE UNCHANGED <<files, selectedFileIndex>>

\* Lines 56-60, with u.filesLength the files.length the handler closed over.
UploadCommit(u) ==
  IF Len(u.newFiles) > 0
  THEN /\ files' = files \o u.newFiles
       /\ selectedFileIndex' = u.filesLength
  ELSE UNCHANGED <<files, selectedFileIndex>>

UploadStart(fileList) ==
  /\ Len(uploads) < MaxUploads
  /\ Len(fileList) # 0
  /\ LET u == [fileList |-> fileList, i |-> nextExcel(fileList, 0),
               newFiles |-> <<>>, filesLength |-> Len(files),
               pc |-> IF nextExcel(fileList, 0) < Len(fileList)
                      THEN "arrayBuffer" ELSE "returned"]
     IN  /\ uploads' = Append(uploads, u)
         /\ UNCHANGED <<files, selectedFileIndex>>
  /\ UNCHANGED <<transpose, splitColumns, exports, pureVars>>

\* A faulty variant: a file that cannot be read ends the loop.
UploadResumeAborting(k) ==
  /\ k \in 1..Len(uploads)
  /\ uploads[k].pc = "arrayBuffer"
  /\ LET u == uploads[k]
         file == u.fileList[u.i + 1]
         newFiles ==
           IF file.readable
           THEN Append(u.newFiles, [name |-> stripExtension(file.name),
                                    data |-> file.sheet,
                                    originalName |-> file.name])
           ELSE u.newFiles
         next == IF file.readable THEN nextExcel(u.fileList, u.i + 1)
                 ELSE Len(u.fileList)
         v == [u EXCEPT !.i = next, !.newFiles = newFiles,
                        !.pc = IF next < Len(u.fileList)
                               THEN "arrayBuffer" ELSE "returned"]
     IN  /\ uploads' = [uploads EXCEPT ![k] = v]
         /\ IF v.pc = "returned"
            THEN UploadCommit(v)
            ELSE UNCHANGED <<files, selectedFileIndex>>
  /\ UNCHANGED <<transpose, splitColumns, exports, pureVars>>

\* The awaited read of file i settles; it is decoded (or the error is
\* logged) and the loop runs on.
UploadResume(k) ==
  /\ k \in 1..Len(uploads)
  /\ uploads[k].pc = "arrayBuffer"
  /\ LET u == uploads[k]
         file == u.fileList[u.i + 1]
         newFiles ==
           IF file.readable
           THEN Append(u.newFiles, [name |-> stripExtension(file.name),
                                    data |-> file.sheet,
                                    originalName |-> file.name])
           ELSE u.newFiles
         next == nextExcel(u.fileList, u.i + 1)
         v == [u EXCEPT !.i = next, !.newFiles = newFiles,
                        !.pc = IF next < Len(u.fileList)
                               THEN "arrayBuffer" ELSE "returned"]
     IN  /\ uploads' = [uploads EXCEPT ![k] = v]
         /\ IF v.pc = "returned"
            THEN UploadCommit(v)
            ELSE UNCHANGED <<files, selectedFileIndex>>
  /\ UNCHANGED <<transpose, splitColumns, exports, pureVars>>

(***************************************************************************)
(* The tabs and the options (App.js 443, 449-457, 468-492).                *)
(***************************************************************************)
SelectTab(index) ==
  /\ index \in 0..(Len(files) - 1)
  /\ selectedFileIndex' = index
  /\ UNCHANGED <<files, transpose, splitColumns, uploads, exports, pureVars>>

RemoveFile(index) ==
  /\ index \in 0..(Len(files) - 1)
  /\ LET newFiles == SubSeq(files, 1, index) \o SubSeq(files, index + 2, Len(files))
     IN  /\ files' = newFiles
         /\ selectedFileIndex' =
              IF selectedFileIndex >= Len(newFiles)
              THEN Max({0, Len(newFiles) - 1})
              ELSE selectedFileIndex
  /\ UNCHANGED <<transpose, splitColumns, uploads, exports, pureVars>>

\* The options are rendered only while files[selectedFileIndex] exists.
OptionsShown == Len(files) > 0 /\ selectedFileIndex < Len(files)

ToggleTranspose ==
  /\ OptionsShown
  /\ transpose' = ~transpose
  /\ UNCHANGED <<files, selectedFileIndex, splitColumns, uploads, exports, pureVars>>

ToggleSplitColumns ==
  /\ OptionsShown
  /\ splitColumns' = ~splitColumns
  /\ UNCHANGED <<files, selectedFileIndex, transpose, uploads, exports, pureVars>>

(***************************************************************************)
(* The download handlers (App.js 229-269, 276-321, 328-374).  A call is a  *)
(* record: the state the handler closed over when it was called (files,    *)
(* selectedFileIndex, transpose, splitColumns), its loop variables, where  *)
(* it is suspended (pc), and the log of what it did to the outside:        *)
(* createWordDocument calls, saveAs, folder.file, setTimeout, alert.  In   *)
(* downloadWordFile i is the selected table and j the loop variable the    *)
(* code calls i.                                                           *)
(***************************************************************************)
Modes == {"current", "all", "zip"}

\* The buttons (App.js 551-578): the first is disabled while there is no
\* file, the other two are rendered only with more than one file.
ButtonShown(mode) ==
  IF mode = "current" THEN Len(files) # 0 ELSE Len(files) > 1

Alert(x, msg) ==
  [x EXCEPT !.pc = "returned", !.log = Append(@, [ev |-> "alert", msg |-> msg])]

Plural(n) == IF n > 1 THEN "s" ELSE ""

\* The alert that ends the handler's try block.
Succeed(x) ==
  Alert(x,
    CASE x.mode = "current" ->
           "Successfully downloaded " \o NumToStr(Len(x.columnPairs))
             \o " Word documents!"
      [] x.mode = "all" ->
           "Successfully downloaded " \o NumToStr(x.totalDocs)
             \o " Word document" \o Plural(x.totalDocs) \o "!"
      [] OTHER ->
           "Successfully created zip file with " \o NumToStr(x.totalDocs)
             \o " Word document" \o Plural(x.totalDocs) \o "!")

\* The handler's catch block.
Fail(x) ==
  Alert(x,
    CASE x.mode = "current" -> "Error creating Word document. Please try again."
      [] x.mode = "all" -> "Error creating Word documents. Please try again."
      [] OTHER -> "Error creating zip file. Please try again.")

\* A faulty variant: the handler reads the transpose option as it is when
\* the render begins, not as it was when the handler was called.
BeginRenderLiveTranspose(x, i, j) ==
  IF i >= Len(x.files) THEN Fail(x)
  ELSE
  LET file == x.files[i + 1]
      dataToExport == IF transpose THEN transposeData(file.data) ELSE file.data
      columnPairs ==
        IF ~x.splitColumns THEN <<>>
        ELSE IF j = 0 THEN splitIntoColumnPairs(dataToExport)
        ELSE x.columnPairs
      suffix == IF x.splitColumns THEN familyName(columnPairs, j) ELSE Str("")
      doc == IF x.splitColumns
             THEN createPairDocument(file, columnPairs[j + 1], transpose, suffix)
             ELSE createWordDocument(file, transpose, suffix)
      name == IF x.splitColumns
              THEN splitFileName(file, suffix)
              ELSE singleFileName(x.mode, file, i)
  IN  [x EXCEPT !.pc = "toBlob", !.i = i, !.j = j, !.columnPairs = columnPairs,
                !.suffix = suffix, !.name = name, !.doc = doc,
                !.log = Append(@, [ev |-> "render", name |-> name, doc |-> doc])]

\* The handler reaches createWordDocument for pair j of table i (for table
\* i, when not splitting) and is suspended in its await of Packer.toBlob.
BeginRender(x, i, j) ==
  IF i >= Len(x.files) THEN Fail(x)   \* file.data of undefined: a TypeError
  ELSE
  LET file == x.files[i + 1]
      dataToExport == IF x.transpose THEN transposeData(file.data) ELSE file.data
      columnPairs ==
        IF ~x.splitColumns THEN <<>>
        ELSE IF j = 0 THEN splitIntoColumnPairs(dataToExport)
        ELSE x.columnPairs
      suffix == IF x.splitColumns THEN familyName(columnPairs, j) ELSE Str("")
      doc == IF x.splitColumns
             THEN createPairDocument(file, columnPairs[j + 1], x.transpose, suffix)
             ELSE createWordDocument(file, x.transpose, suffix)
      name == IF x.splitColumns
              THEN splitFileName(file, suffix)
              ELSE singleFileName(x.mode, file, i)
  IN  [x EXCEPT !.pc = "toBlob", !.i = i, !.j = j, !.columnPairs = columnPairs,
                !.suffix = suffix, !.name = name, !.doc = doc,
                !.log = Append(@, [ev |-> "render", name |-> name, doc |-> doc])]

\* The validation that opens each handler: the alert it raises, or "".
\* A faulty variant: only the empty working set is refused.
validateFilesOnly(mode, fs, index) ==
  IF Len(fs) = 0
  THEN IF mode = "current" THEN "Please upload an Excel file first!"
       ELSE "Please upload Excel files first!"
  ELSE ""

validate(mode, fs, index) ==
  IF Len(fs) = 0
  THEN IF mode = "current" THEN "Please upload an Excel file first!"
       ELSE "Please upload Excel files first!"
  ELSE IF mode = "current" /\ ~(index \in 0..(Len(fs) - 1))
  THEN "No file selected!"
  ELSE ""

\* setTimeout(resolve, 300), awaited.
Delay(x) == [x EXCEPT !.pc = "delay", !.log = Append(@, [ev |-> "delay"])]

\* A faulty variant: downloadZipFile serializes the archive as soon as one
\* table is done.
NextArtifactSerializingEarly(x) ==
  IF x.splitColumns /\ x.j + 1 < Len(x.columnPairs) THEN BeginRender(x, x.i, x.j + 1)
  ELSE IF x.mode = "zip"
  THEN [x EXCEPT !.pc = "generateAsync", !.log = Append(@, [ev |-> "generateAsync"])]
  ELSE IF x.i + 1 < Len(x.files) THEN BeginRender(x, x.i + 1, 0)
  ELSE Succeed(x)

\* The loops of downloadAllWordFiles and downloadZipFile move on from (i, j).
NextArtifact(x) ==
  IF x.splitColumns /\ x.j + 1 < Len(x.columnPairs) THEN BeginRender(x, x.i, x.j + 1)
  ELSE IF x.i + 1 < Len(x.files) THEN BeginRender(x, x.i + 1, 0)
  ELSE IF x.mode = "zip"
  THEN [x EXCEPT !.pc = "generateAsync", !.log = Append(@, [ev |-> "generateAsync"])]
  ELSE Succeed(x)

\* folder.file(name, blob): an entry of that name is replaced where it is.
AddEntry(zip, path, doc) ==
  IF \E k \in 1..Len(zip) : zip[k].name = path
  THEN [k \in 1..Len(zip) |->
          IF zip[k].name = path THEN [name |-> path, doc |-> doc] ELSE zip[k]]
  ELSE Append(zip, [name |-> path, doc |-> doc])

\* Whether the handler awaits the 300 ms delay after delivering the
\* artifact at (i, j): lines 254, 301 and 310.
delayAfter(x) ==
  CASE x.mode = "current" -> x.j < Len(x.columnPairs) - 1
    [] x.mode = "all" /\ x.splitColumns -> TRUE
    [] OTHER -> x.i < Len(x.files) - 1

\* Packer.toBlob has resolved: the handler delivers the blob and runs to its
\* next await or to its end.
AfterBlob(x) ==
  CASE x.mode = "zip" ->
         NextArtifact([x EXCEPT
           !.zip = AddEntry(@, "converted_files/" \o x.name, x.doc),
           !.totalDocs = @ + 1,
           !.log = Append(@, [ev |-> "file", folder |-> "converted_files",
                              name |-> x.name, doc |-> x.doc])])
    [] x.mode = "current" /\ ~x.splitColumns ->
         [x EXCEPT !.pc = "returned",
                   !.log = Append(@, [ev |-> "saveAs", name |-> x.name, doc |-> x.doc])]
    [] OTHER ->
         LET y == [x EXCEPT
                     !.totalDocs = IF x.mode = "all" THEN @ + 1 ELSE @,
                     !.log = Append(@, [ev |-> "saveAs", name |-> x.name,
                                        doc |-> x.doc])]
         IN  IF delayAfter(y) THEN Delay(y) ELSE Succeed(y)

\* The delay has elapsed: the loop goes on.
AfterDelay(x) ==
  IF x.mode = "current" THEN BeginRender(x, x.i, x.j + 1) ELSE NextArtifact(x)

\* A click on a download button: the handler validates and runs to its
\* first await.
ExportStart(mode) ==
  /\ Len(exports) < MaxExports
  /\ ButtonShown(mode)
  /\ LET x == [mode |-> mode, files |-> files,
               selectedFileIndex |-> selectedFileIndex,
               transpose |-> transpose, splitColumns |-> splitColumns,
               pc |-> "called", i |-> 0, j |-> 0, columnPairs |-> <<>>,
               totalDocs |-> 0, suffix |-> Str(""), name |-> "", doc |-> NoDoc,
               zip |-> <<>>, log |-> <<>>]
         refusal == validate(mode, files, selectedFileIndex)
     IN  exports' = Append(exports,
           IF refusal # "" THEN Alert(x, refusal)
           ELSE BeginRender(x, IF mode = "current" THEN selectedFileIndex ELSE 0, 0))
  /\ UNCHANGED <<files, selectedFileIndex, transpose, splitColumns, uploads, pureVars>>

ExportBlobResolves(k) ==
  /\ k \in 1..Len(exports)
  /\ exports[k].pc = "toBlob"
  /\ exports' = [exports EXCEPT ![k] = AfterBlob(@)]
  /\ UNCHANGED <<files, selectedFileIndex, transpose, splitColumns, uploads, pureVars>>

\* A faulty variant: the blob that failed to render is delivered all the
\* same before the catch block runs.
ExportBlobRejectsAfterSave(k) ==
  /\ k \in 1..Len(exports)
  /\ exports[k].pc = "toBlob"
  /\ exports' = [exports EXCEPT ![k] =
       Fail([@ EXCEPT !.log = Append(@, [ev |-> IF exports[k].mode = "zip" THEN "file" ELSE "saveAs",
                                         name |-> exports[k].name,
                                         doc |-> exports[k].doc])])]
  /\ UNCHANGED <<files, selectedFileIndex, transpose, splitColumns, uploads, pureVars>>

\* Packer.toBlob rejects: the catch block.
ExportBlobRejects(k) ==
  /\ k \in 1..Len(exports)
  /\ exports[k].pc = "toBlob"
  /\ exports' = [exports EXCEPT ![k] = Fail(@)]
  /\ UNCHANGED <<files, selectedFileIndex, transpose, splitColumns, uploads, pureVars>>

ExportDelayElapses(k) ==
  /\ k \in 1..Len(exports)
  /\ exports[k].pc = "delay"
  /\ exports' = [exports EXCEPT ![k] = AfterDelay(@)]
  /\ UNCHANGED <<files, selectedFileIndex, transpose, splitColumns, uploads, pureVars>>

\* zip.generateAsync resolves: the archive is saved and the count reported.
ExportZipResolves(k) ==
  /\ k \in 1..Len(exports)
  /\ exports[k].pc = "generateAsync"
  /\ exports' = [exports EXCEPT ![k] =
       Succeed([@ EXCEPT !.log = Append(@, [ev |-> "saveZip",
                                            name |-> "converted_files.zip",
                                            entries |-> exports[k].zip])])]
  /\ UNCHANGED <<files, selectedFileIndex, transpose, splitColumns, uploads, pureVars>>

\* A faulty variant: the archive is saved although its serialization failed.
ExportZipRejectsAfterSave(k) ==
  /\ k \in 1..Len(exports)
  /\ exports[k].pc = "generateAsync"
  /\ exports' = [exports EXCEPT ![k] =
       Fail([@ EXCEPT !.log = Append(@, [ev |-> "saveZip",
                                         name |-> "converted_files.zip",
                                         entries |-> exports[k].zip])])]
  /\ UNCHANGED <<files, selectedFileIndex, transpose, splitColumns, uploads, pureVars>>

\* zip.generateAsync rejects: the catch block.
ExportZipRejects(k) ==
  /\ k \in 1..Len(exports)
  /\ exports[k].pc = "generateAsync"
  /\ exports' = [exports EXCEPT ![k] = Fail(@)]
  /\ UNCHANGED <<files, selectedFileIndex, transpose, splitColumns, uploads, pureVars>>

Init == AppInit /\ PureIdle

Next ==
  \/ \E fileList \in FileLists : UploadStart(fileList)
  \/ \E k \in 1..MaxUploads : UploadResume(k)
  \/ \E index \in 0..(Len(files) - 1) : SelectTab(index)
  \/ \E index \in 0..(Len(files) - 1) : RemoveFile(index)
  \/ ToggleTranspose
  \/ ToggleSplitColumns
  \/ \E mode \in Modes : ExportStart(mode)
  \/ \E k \in 1..MaxExports : ExportBlobResolves(k)
  \/ \E k \in 1..MaxExports : ExportBlobRejects(k)
  \/ \E k \in 1..MaxExports : ExportDelayElapses(k)
  \/ \E k \in 1..MaxExports : ExportZipResolves(k)
  \/ \E k \in 1..MaxExports : ExportZipRejects(k)

Spec == Init /\ [][Next]_vars

(***************************************************************************)
(* The page with its upload zone and its tabs alone, and file lists that   *)
(* hold several spreadsheets, one of them unreadable.                      *)
(***************************************************************************)
UploadLists ==
  { <<fileA, fileCorrupt, fileNoName>>,
    <<fileOneColumn, fileText, fileA>>,
    <<fileCorrupt>> }

UploadNext ==
  \/ \E fileList \in UploadLists : UploadStart(fileList)
  \/ \E k \in 1..MaxUploads : UploadResume(k)
  \/ \E index \in 0..(Len(files) - 1) : SelectTab(index)
  \/ \E index \in 0..(Len(files) - 1) : RemoveFile(index)

UploadSpec == Init /\ [][UploadNext]_vars

(***************************************************************************)
(* Vocabulary of the properties: read a grid position by position.         *)
(***************************************************************************)
\* The cell at JavaScript position (r, c) of grid g is there and not a hole.
Defined(g, r, c) ==
  /\ r + 1 \in 1..Len(g)
  /\ c + 1 \in 1..Len(g[r + 1])
  /\ g[r + 1][c + 1].t # "undefined"

CellOrEmpty(g, r, c) == IF Defined(g, r, c) THEN g[r + 1][c + 1] ELSE Str("")

\* m is the length of a longest row of g.
IsMaxLen(g, m) ==
  /\ \A r \in 1..Len(g) : Len(g[r]) <= m
  /\ \E r \in 1..Len(g) : Len(g[r]) = m

\* All rows of g have length w and no cell is missing.
RectOfWidth(g, w) ==
  \A r \in 1..Len(g) :
    /\ Len(g[r]) = w
    /\ \A c \in 1..w : g[r][c].t # "undefined"

Widths == 0..(MaxCols + MaxRows)

(***************************************************************************)
(* C1: for every grid with at least one row, ragged or not, transposeData  *)
(* returns maxCols rows (maxCols the length of a longest input row), each  *)
(* as long as the input has rows, and output[c][r] is input[r][c] when     *)
(* that cell is defined and the empty string otherwise.                    *)
(***************************************************************************)
C1_TransposeContract ==
  (nT = 1 /\ Len(input) >= 1) =>
    \E m \in Widths :
      /\ IsMaxLen(input, m)
      /\ Len(cur) = m
      /\ \A c \in 1..m :
           /\ Len(cur[c]) = Len(input)
           /\ \A r \in 1..Len(input) :
                cur[c][r] = CellOrEmpty(input, r - 1, c - 1)

\* A ragged grid with a hole has been transposed, and the hole came out as ''.
C1_Witness ==
  /\ nT = 1
  /\ Len(input) = 2
  /\ Len(input[1]) = 3
  /\ Len(input[2]) = 1
  /\ input[1][2] = Undef
  /\ Len(cur) = 3
  /\ cur[2] = <<Str(""), Str("")>>

(***************************************************************************)
(* C2 (as stated): for any rectangular grid g (rows of equal length, every *)
(* cell defined) transposeData(transposeData(g)) = g, and the grid with no *)
(* rows maps to itself.                                                    *)
(***************************************************************************)
C2_Original ==
  /\ (nT = 2 /\ \E w \in Widths : RectOfWidth(input, w)) => cur = input
  /\ (nT >= 1 /\ Len(input) = 0) => cur = input

(***************************************************************************)
(* C2 (amended): for any rectangular grid g whose rows have at least one   *)
(* cell, transposeData(transposeData(g)) = g, and the grid with no rows    *)
(* maps to itself.  (Rows of length 0 transpose to the grid with no rows,  *)
(* which keeps no trace of how many rows there were.)                      *)
(***************************************************************************)
C2_InvolutionOnNonEmptyRows ==
  /\ (nT = 2 /\ \E w \in Widths \ {0} : RectOfWidth(input, w)) => cur = input
  /\ (nT >= 1 /\ Len(input) = 0) => cur = input

\* A 2 x 3 grid of numbers, its cell (0,0) being 0, came back after two
\* transpositions.
C2_Witness ==
  /\ nT = 2
  /\ Len(input) = 2
  /\ RectOfWidth(input, 3)
  /\ input[1][1] = Num(0)
  /\ cur = input

(***************************************************************************)
(* C3: for every grid whose longest row has N > 1 cells,                   *)
(* splitIntoColumnPairs returns N-1 pairs in increasing order of source    *)
(* column; pair i has one row per input row, [row[0], row[i+1]], a missing *)
(* cell replaced by the empty string.                                      *)
(***************************************************************************)
C3_SplitContract ==
  splitDone =>
    \A N \in Widths :
      (N > 1 /\ IsMaxLen(cur, N)) =>
        /\ Len(pairs) = N - 1
        /\ \A i \in 0..(N - 2) :
             /\ Len(pairs[i + 1]) = Len(cur)
             /\ \A r \in 1..Len(cur) :
                  pairs[i + 1][r] =
                    <<CellOrEmpty(cur, r - 1, 0), CellOrEmpty(cur, r - 1, i + 1)>>

\* A ragged grid of width 3 whose second row lacks its first cell was split
\* in two pairs.
C3_Witness ==
  /\ splitDone
  /\ nT = 0
  /\ Len(cur) = 2
  /\ Len(cur[1]) = 3
  /\ Len(cur[2]) = 2
  /\ cur[2][1] = Undef
  /\ Len(pairs) = 2
  /\ pairs[2][2] = <<Str(""), Str("")>>

(***************************************************************************)
(* C4: for every grid whose longest row has at most one cell, and for the  *)
(* grid with no rows, splitIntoColumnPairs returns a sequence of exactly   *)
(* one element, the input grid itself.                                     *)
(***************************************************************************)
C4_SplitFallback ==
  (splitDone /\ (Len(cur) = 0 \/ IsMaxLen(cur, 0) \/ IsMaxLen(cur, 1))) =>
    pairs = <<cur>>

\* A grid of two rows, one of one cell and one of none, was returned whole.
C4_Witness ==
  /\ splitDone
  /\ Len(cur) = 2
  /\ Len(cur[1]) = 1
  /\ Len(cur[2]) = 0
  /\ pairs = <<cur>>

(***************************************************************************)
(* Vocabulary of the properties about the download handlers.  What a call  *)
(* should produce is written from the source grid position by position,    *)
(* without the operators that model the code.                              *)
(***************************************************************************)
StartsWith(s, prefix) ==
  Len(s) >= Len(prefix) /\ SubSeq(s, 1, Len(prefix)) = prefix

\* The artifacts a call has handed to saveAs or put into the archive.
Deliveries(x) == SelectSeq(x.log, LAMBDA e : e.ev \in {"saveAs", "file"})

\* The call passed its validation.
Validated(x) ==
  /\ Len(x.files) > 0
  /\ x.mode = "current" => x.selectedFileIndex \in 0..(Len(x.files) - 1)

\* The call ran to the end of its try block.
Succeeded(x) ==
  /\ x.pc = "returned"
  /\ Len(x.log) > 0
  /\ LET e == x.log[Len(x.log)]
     IN  \/ e.ev = "saveAs"
         \/ e.ev = "alert" /\ StartsWith(e.msg, "Successfully")

MaxLenOf(g) ==
  CHOOSE m \in {Len(g[r]) : r \in 1..Len(g)} : \A r \in 1..Len(g) : Len(g[r]) <= m

\* G is src, transposed when tr: its number of rows, its width, its cells.
GRows(src, tr) ==
  IF Len(src) = 0 THEN 0 ELSE IF tr THEN MaxLenOf(src) ELSE Len(src)

GWidth(src, tr) ==
  IF Len(src) = 0 THEN 0
  ELSE IF tr THEN (IF MaxLenOf(src) = 0 THEN 0 ELSE Len(src))
  ELSE MaxLenOf(src)

GCell(src, tr, r, c) ==
  IF tr THEN CellOrEmpty(src, c, r) ELSE CellOrEmpty(src, r, c)

TextOf(cell) == IF cell.t = "number" THEN NumToStr(cell.n) ELSE cell.s

\* The table of texts of G as a whole.
WholeRows(src, tr) ==
  IF tr
  THEN [r \in 1..GRows(src, tr) |->
          [c \in 1..GWidth(src, tr) |-> TextOf(GCell(src, tr, r - 1, c - 1))]]
  ELSE [r \in 1..Len(src) |->
          [c \in 1..Len(src[r]) |-> TextOf(CellOrEmpty(src, r - 1, c - 1))]]

\* The table of texts of the pair of G's columns 0 and col.
PairRows(src, tr, col) ==
  [r \in 1..GRows(src, tr) |->
     <<TextOf(GCell(src, tr, r - 1, 0)), TextOf(GCell(src, tr, r - 1, col))>>]

\* What table i of the call's working set should yield: one entry per
\* artifact, with the source column it is built from (0: the whole grid).
ExpectedOfTable(x, i) ==
  LET src == x.files[i + 1].data
      W == GWidth(src, x.transpose)
  IN  IF x.splitColumns /\ W > 1
      THEN [j \in 1..(W - 1) |->
              [i |-> i, col |-> j, rows |-> PairRows(src, x.transpose, j)]]
      ELSE <<[i |-> i, col |-> IF x.splitColumns THEN 1 ELSE 0,
              rows |-> WholeRows(src, x.transpose)]>>

RECURSIVE ExpectedFrom(_, _)
ExpectedFrom(x, i) ==
  IF i >= Len(x.files) THEN <<>>
  ELSE ExpectedOfTable(x, i) \o ExpectedFrom(x, i + 1)

\* What the call should yield: the selected table's artifacts, or those of
\* all tables in the order of the working set.
Expected(x) ==
  IF ~Validated(x) THEN <<>>
  ELSE IF x.mode = "current" THEN ExpectedOfTable(x, x.selectedFileIndex)
  ELSE ExpectedFrom(x, 0)

\* The names the pair built from source column col may resolve to: the text
\* of row 0's second cell, or the placeholder; never the empty string.
GroupNames(x, a) ==
  {TextOf(GCell(x.files[a.i + 1].data, x.transpose, 0, a.col)),
   "column" \o NumToStr(a.col + 1)} \ {""}

Calls == 1..Len(exports)

(***************************************************************************)
(* C5 (as stated): in all three export modes with splitting enabled, the   *)
(* group name resolved for the pair built from source column k is the      *)
(* value of the pair's row 0, second cell whenever that cell is non-empty  *)
(* (a string other than '', or any number), and otherwise the placeholder  *)
(* "column{k+1}"; it is never the empty string.  The code takes the        *)
(* placeholder for every falsy cell, the number 0 included.                *)
(***************************************************************************)
C5_GroupNameAsStated ==
  \A k \in Calls :
    LET x == exports[k]
        pair == x.columnPairs[x.j + 1]
        has == /\ Len(pair) >= 1
               /\ Len(pair[1]) >= 2
               /\ \/ pair[1][2].t = "number"
                  \/ pair[1][2].t = "string" /\ pair[1][2].s # ""
    IN  (x.splitColumns /\ x.pc = "toBlob") =>
          /\ ToStr(x.suffix) =
               IF has THEN TextOf(pair[1][2]) ELSE "column" \o NumToStr(x.j + 2)
          /\ ToStr(x.suffix) # ""

(***************************************************************************)
(* C6: with splitColumns enabled, each source table yields one artifact    *)
(* per column pair of G (the one whole grid when G has no second column),  *)
(* in increasing column order, G being the source grid transposed once if  *)
(* transpose is on and the source grid otherwise; each artifact's table is *)
(* that pair, not transposed again, and its title suffix is the group name *)
(* resolved for the pair.  The tables are processed in the order of the    *)
(* working set.  At any moment the artifacts delivered so far are the      *)
(* first of that list, and all of it once the call has succeeded.          *)
(***************************************************************************)
C6_SplitArtifacts ==
  \A k \in Calls :
    LET x == exports[k]
        D == Deliveries(x)
        E == Expected(x)
    IN  x.splitColumns =>
          /\ Len(D) <= Len(E)
          /\ Succeeded(x) => Len(D) = Len(E)
          /\ \A p \in 1..Len(D) :
               /\ D[p].doc.rows = E[p].rows
               /\ \E g \in GroupNames(x, E[p]) :
                    D[p].doc.title = "Packing Sheet " \o g

\* An all-files call on two tables, transpose on and splitting on, has
\* delivered three artifacts: the two pairs of the transposed grid
\* [[A, B], [1, 2], [3]], then the one pair of the transposed grid
\* [[Name, 0], [Age, 30, 25]].
C6_Witness ==
  \E k \in Calls :
    LET x == exports[k]
        D == Deliveries(x)
    IN  /\ x.mode = "all"
        /\ x.splitColumns
        /\ x.transpose
        /\ Succeeded(x)
        /\ Len(D) = 3
        /\ D[1].doc = [title |-> "Packing Sheet 1",
                       rows |-> <<<<"A", "1">>, <<"B", "2">>>>]
        /\ D[2].doc = [title |-> "Packing Sheet 3",
                       rows |-> <<<<"A", "3">>, <<"B", "">>>>]
        /\ D[3].doc = [title |-> "Packing Sheet Age",
                       rows |-> <<<<"Name", "Age">>, <<"0", "30">>, <<"", "25">>>>]

(***************************************************************************)
(* C7: with splitColumns disabled, each source table yields exactly one    *)
(* artifact with an empty title suffix; its table is the transpose of the  *)
(* source grid with missing cells filled by the empty string when          *)
(* transpose is on, and the source grid as it is when transpose is off.    *)
(***************************************************************************)
C7_WholeArtifacts ==
  \A k \in Calls :
    LET x == exports[k]
        D == Deliveries(x)
        E == Expected(x)
    IN  ~x.splitColumns =>
          /\ Len(D) <= Len(E)
          /\ Succeeded(x) => Len(D) = Len(E)
          /\ Validated(x) =>
               Len(E) = IF x.mode = "current" THEN 1 ELSE Len(x.files)
          /\ \A p \in 1..Len(D) :
               /\ D[p].doc.title = "Packing Sheet"
               /\ D[p].doc.rows =
                    LET src == x.files[E[p].i + 1].data
                    IN  IF x.transpose
                        THEN [c \in 1..MaxLenOf(src) |->
                                [r \in 1..Len(src) |->
                                   TextOf(CellOrEmpty(src, r - 1, c - 1))]]
                        ELSE [r \in 1..Len(src) |->
                                [c \in 1..Len(src[r]) |->
                                   TextOf(CellOrEmpty(src, r - 1, c - 1))]]

\* A current-file call on the ragged grid [[A, B], [1, 2], [3]], transpose
\* on and splitting off, has delivered [[A, 1, 3], [B, 2, '']].
C7_Witness ==
  \E k \in Calls :
    LET x == exports[k]
        D == Deliveries(x)
    IN  /\ x.mode = "current"
        /\ ~x.splitColumns
        /\ x.transpose
        /\ Succeeded(x)
        /\ Len(D) = 1
        /\ D[1].doc = [title |-> "Packing Sheet",
                       rows |-> <<<<"A", "1", "3">>, <<"B", "2", "">>>>]

(***************************************************************************)
(* C8 (as stated): every artifact handed to the download sink or added to  *)
(* the archive is named "<displayName>_<groupName>.docx" when splitting is *)
(* enabled and "<displayName>.docx" otherwise, with a positional default   *)
(* base name, "converted_<position>", substituted when displayName is      *)
(* empty (read here as: when not splitting); every name ends in ".docx".   *)
(***************************************************************************)
C8_NamesAsStated ==
  \A k \in Calls :
    LET x == exports[k]
        D == Deliveries(x)
        E == Expected(x)
    IN  /\ Len(D) <= Len(E)
        /\ \A p \in 1..Len(D) :
             LET file == x.files[E[p].i + 1]
                 positional == IF file.name # "" THEN file.name
                               ELSE "converted_" \o NumToStr(E[p].i + 1)
             IN  /\ EndsWith(D[p].name, ".docx")
                 /\ IF x.splitColumns
                    THEN \E g \in GroupNames(x, E[p]) :
                           D[p].name = file.name \o "_" \o g \o ".docx"
                    ELSE D[p].name = positional \o ".docx"

(***************************************************************************)
(* C8 (amended): every artifact handed to the download sink or added to    *)
(* the archive is named "<displayName>_<groupName>.docx" when splitting is *)
(* enabled (an empty displayName is used as it is) and                     *)
(* "<displayName>.docx" otherwise, where an empty displayName is replaced  *)
(* by "converted" in current-file export and by the positional            *)
(* "converted_<i+1>" (i the table's index in the working set) in all-files *)
(* and archive export; every name ends in ".docx".                         *)
(***************************************************************************)
C8_Names ==
  \A k \in Calls :
    LET x == exports[k]
        D == Deliveries(x)
        E == Expected(x)
    IN  /\ Len(D) <= Len(E)
        /\ \A p \in 1..Len(D) :
             LET file == x.files[E[p].i + 1]
                 base == IF file.name # "" THEN file.name
                         ELSE IF x.mode = "current" THEN "converted"
                         ELSE "converted_" \o NumToStr(E[p].i + 1)
             IN  /\ EndsWith(D[p].name, ".docx")
                 /\ IF x.splitColumns
                    THEN \E g \in GroupNames(x, E[p]) :
                           D[p].name = file.name \o "_" \o g \o ".docx"
                    ELSE D[p].name = base \o ".docx"

\* An archive call without splitting has added the table named "a" and,
\* second, the table with the empty name; a current-file call has
\* delivered the table with the empty name, or one of its pairs.
C8_Witness ==
  \E k \in Calls :
    LET x == exports[k]
        D == Deliveries(x)
    IN  \/ /\ x.mode = "zip"
           /\ ~x.splitColumns
           /\ Len(D) = 2
           /\ D[1].name = "a.docx"
           /\ D[2].name = "converted_2.docx"
        \/ /\ x.mode = "current"
           /\ ~x.splitColumns
           /\ Len(D) = 1
           /\ D[1].name = "converted.docx"
        \/ /\ x.mode = "current"
           /\ x.splitColumns
           /\ Len(D) = 1
           /\ D[1].name = "_B.docx"

(***************************************************************************)
(* C9 (as stated): in individual-file delivery (current-file and all-files *)
(* export, splitting on or off) the inter-artifact delay occurs only       *)
(* between two consecutive deliveries: a call that has run to its end took *)
(* every delay after one delivery and before another, none after the last. *)
(* downloadAllWordFiles with splitting on waits after every artifact.      *)
(***************************************************************************)
C9_DelayOnlyBetweenDeliveries ==
  \A k \in Calls :
    LET x == exports[k]
    IN  (x.mode # "zip" /\ Succeeded(x)) =>
          \A p \in 1..Len(x.log) :
            x.log[p].ev = "delay" =>
              /\ \E q \in 1..(p - 1) : x.log[q].ev = "saveAs"
              /\ \E q \in (p + 1)..Len(x.log) : x.log[q].ev = "saveAs"

(***************************************************************************)
(* C10: a call whose working set is empty (any of the three handlers) or,  *)
(* for current-file export, whose selection index denotes no table of the  *)
(* working set, fails validation: it raises the handler's validation alert *)
(* and returns; it renders nothing and delivers nothing, then or later.    *)
(***************************************************************************)
C10_ValidationRefuses ==
  /\ \A mode \in Modes, index \in 0..MaxUploads :
       validate(mode, <<>>, index) =
         IF mode = "current" THEN "Please upload an Excel file first!"
         ELSE "Please upload Excel files first!"
  /\ \A k \in Calls :
       LET x == exports[k]
       IN  /\ Len(x.files) = 0 =>
             /\ x.pc = "returned"
             /\ x.log = <<[ev |-> "alert",
                           msg |-> IF x.mode = "current"
                                   THEN "Please upload an Excel file first!"
                                   ELSE "Please upload Excel files first!"]>>
           /\ (/\ Len(x.files) > 0
               /\ x.mode = "current"
               /\ x.selectedFileIndex \notin 0..(Len(x.files) - 1)) =>
             /\ x.pc = "returned"
             /\ x.log = <<[ev |-> "alert", msg |-> "No file selected!"]>>

\* A current-file call made while one table was loaded and the selection
\* index was 1 (left there by an upload that began before a removal) has
\* been refused.
C10_Witness ==
  \E k \in Calls :
    LET x == exports[k]
    IN  /\ x.mode = "current"
        /\ Len(x.files) = 1
        /\ x.selectedFileIndex = 1
        /\ x.pc = "returned"
        /\ x.log = <<[ev |-> "alert", msg |-> "No file selected!"]>>

(***************************************************************************)
(* Vocabulary of the properties about failures and reports.                *)
(***************************************************************************)
\* The events of one kind in a call's log, in order.
Events(x, ev) == SelectSeq(x.log, LAMBDA e : e.ev = ev)

IsErrorAlert(e) == e.ev = "alert" /\ StartsWith(e.msg, "Error creating")

IsSuccessAlert(e) == e.ev = "alert" /\ StartsWith(e.msg, "Successfully")

\* The call ended in its catch block.
Failed(x) ==
  /\ x.pc = "returned"
  /\ Len(x.log) > 0
  /\ IsErrorAlert(x.log[Len(x.log)])

(***************************************************************************)
(* C11: in current-file and all-files export, when the rendering of the    *)
(* n-th artifact of a call fails, the artifacts 1..n-1 have been delivered *)
(* as rendered, the n-th has not, the call has raised exactly one alert,   *)
(* the error alert, and no success report; and from then on the call does  *)
(* nothing more: what was delivered stays delivered, nothing from n onward *)
(* is rendered or delivered, nothing is retried.                           *)
(***************************************************************************)
C11_RenderFailureAborts ==
  /\ [](\A k \in Calls :
          LET x == exports[k]
              R == Events(x, "render")
              D == Deliveries(x)
          IN  (x.mode # "zip" /\ Failed(x)) =>
                /\ Len(R) = Len(D) + 1
                /\ Len(R) <= Len(Expected(x))
                /\ \A p \in 1..Len(D) :
                     D[p].name = R[p].name /\ D[p].doc = R[p].doc
                /\ Len(Events(x, "alert")) = 1
                /\ \A p \in 1..Len(x.log) : ~IsSuccessAlert(x.log[p]))
  /\ [][\A k \in Calls :
          (exports[k].mode # "zip" /\ Failed(exports[k])) =>
            exports'[k] = exports[k]]_vars

\* An all-files call has failed on its second artifact, the first one
\* delivered.
C11_Witness ==
  \E k \in Calls :
    LET x == exports[k]
    IN  /\ x.mode = "all"
        /\ Failed(x)
        /\ Len(Events(x, "render")) = 2
        /\ Len(Events(x, "saveAs")) = 1
        /\ x.log[2].ev = "saveAs"

(***************************************************************************)
(* C12: in archive export, when the rendering of an artifact or the        *)
(* serialization of the archive fails, the call never invokes saveAs: no   *)
(* archive is delivered, and the call ends with one alert, the error       *)
(* alert; it stays so.                                                     *)
(***************************************************************************)
C12_ArchiveFailureDeliversNothing ==
  /\ [](\A k \in Calls :
          LET x == exports[k]
          IN  (x.mode = "zip" /\ Failed(x)) =>
                /\ Events(x, "saveZip") = <<>>
                /\ Events(x, "saveAs") = <<>>
                /\ Len(Events(x, "alert")) = 1
                /\ x.log[Len(x.log)].msg = "Error creating zip file. Please try again.")
  /\ [][\A k \in Calls :
          (exports[k].mode = "zip" /\ Failed(exports[k])) =>
            exports'[k] = exports[k]]_vars

\* An archive call has added two entries, begun the serialization and
\* failed there.
C12_Witness ==
  \E k \in Calls :
    LET x == exports[k]
    IN  /\ x.mode = "zip"
        /\ Failed(x)
        /\ Len(x.zip) = 2
        /\ Len(Events(x, "generateAsync")) = 1
        /\ Events(x, "saveZip") = <<>>

(***************************************************************************)
(* C13 (as stated): after a successful archive export the saved archive    *)
(* holds exactly one entry per produced artifact (one per table without    *)
(* splitting, the sum of the tables' pair counts with splitting), every    *)
(* entry lies under "converted_files", and the names given to the entries  *)
(* are pairwise distinct, also when tables share a display name.           *)
(* folder.file replaces an entry of the same name, and nothing in          *)
(* downloadZipFile or handleFilesUpload makes the names distinct.          *)
(***************************************************************************)
C13_ArchiveEntriesAsStated ==
  \A k \in Calls :
    LET x == exports[k]
        S == Events(x, "saveZip")
        F == Events(x, "file")
    IN  (x.mode = "zip" /\ Succeeded(x)) =>
          /\ Len(S) = 1
          /\ Len(S[1].entries) = Len(Expected(x))
          /\ Len(F) = Len(Expected(x))
          /\ \A p \in 1..Len(S[1].entries) :
               StartsWith(S[1].entries[p].name, "converted_files/")
          /\ \A p, q \in 1..Len(F) : p # q => F[p].name # F[q].name

\* The count a success report states.
ReportsCount(msg, n) ==
  \/ StartsWith(msg, "Successfully downloaded " \o NumToStr(n) \o " Word document")
  \/ StartsWith(msg, "Successfully created zip file with " \o NumToStr(n)
                       \o " Word document")

\* The number of artifacts a call has delivered: saveAs calls, or the
\* entries of the archive it saved.
DeliveredCount(x) ==
  IF x.mode = "zip"
  THEN IF Events(x, "saveZip") = <<>> THEN 0
       ELSE Len(Events(x, "saveZip")[1].entries)
  ELSE Len(Events(x, "saveAs"))

(***************************************************************************)
(* C14 (as stated): every export call that runs to the end of its try      *)
(* block, in any of the three modes, splitting on or off, reports a count, *)
(* and the count is the number of artifacts handed to saveAs or present as *)
(* entries in the saved archive.  downloadWordFile reports nothing when it *)
(* does not split, and downloadZipFile counts folder.file calls, not       *)
(* entries.                                                                *)
(***************************************************************************)
C14_ReportedCountAsStated ==
  \A k \in Calls :
    LET x == exports[k]
        A == Events(x, "alert")
    IN  Succeeded(x) =>
          /\ Len(A) = 1
          /\ ReportsCount(A[1].msg, DeliveredCount(x))

(***************************************************************************)
(* Vocabulary of the properties about uploads.                             *)
(***************************************************************************)
Handlers == 1..Len(uploads)

\* The files of a list the handler takes for spreadsheets, in list order.
Spreadsheets(fileList) == SelectSeq(fileList, LAMBDA f : isExcelName(f.name))

\* Where the file called name stands in fileList.
IndexIn(fileList, name) ==
  CHOOSE p \in 1..Len(fileList) : fileList[p].name = name

\* Handler k returns in this step.
Returns(k) == uploads[k].pc = "arrayBuffer" /\ uploads'[k].pc = "returned"

(***************************************************************************)
(* C15: when some of the N spreadsheet files of an upload cannot be        *)
(* decoded, the handler still runs to its end; each failing file is left   *)
(* out, every other spreadsheet is decoded and added to the working set    *)
(* (N-1 tables for one failure), and the tables that were in the working   *)
(* set stay as they were.                                                  *)
(***************************************************************************)
C15_DecodeFailureIsPerFile ==
  /\ [](\A k \in Handlers :
          LET u == uploads[k]
              S == Spreadsheets(u.fileList)
              bad == SelectSeq(S, LAMBDA f : ~f.readable)
          IN  u.pc = "returned" =>
                /\ Len(u.newFiles) = Len(S) - Len(bad)
                /\ \A p \in 1..Len(S) :
                     S[p].readable <=>
                       \E q \in 1..Len(u.newFiles) :
                         /\ u.newFiles[q].originalName = S[p].name
                         /\ u.newFiles[q].data = S[p].sheet)
  /\ [][\A k \in Handlers :
          Returns(k) =>
            /\ Len(files') = Len(files) + Len(uploads'[k].newFiles)
            /\ SubSeq(files', 1, Len(files)) = files
            /\ \A q \in 1..Len(uploads'[k].newFiles) :
                 \E p \in (Len(files) + 1)..Len(files') :
                   files'[p] = uploads'[k].newFiles[q]]_vars

\* The upload of a.xlsx, b.xls (unreadable) and .xlsx has returned while
\* the table of c.XLS was loaded: the working set holds c.XLS and, after
\* it, the two tables that could be decoded.
C15_Witness ==
  \E k \in Handlers :
    /\ uploads[k].pc = "returned"
    /\ uploads[k].fileList = <<fileA, fileCorrupt, fileNoName>>
    /\ Len(uploads[k].newFiles) = 2
    /\ Len(files) = 3
    /\ files[1].originalName = "c.XLS"
    /\ files[2].originalName = "a.xlsx"
    /\ files[3].originalName = ".xlsx"

(***************************************************************************)
(* C16: the tables an upload adds come after the tables already present,   *)
(* as one contiguous block, in the order of the uploaded file list,        *)
(* whatever the order in which the reads of two uploads in flight settle.  *)
(***************************************************************************)
C16_UploadOrder ==
  [][\A k \in Handlers :
       Returns(k) =>
         LET u == uploads'[k]
             T == SubSeq(files', Len(files) + 1, Len(files'))
         IN  /\ files' = files \o T
             /\ T = u.newFiles
             /\ \A p, q \in 1..Len(T) :
                  p < q => IndexIn(u.fileList, T[p].originalName)
                             < IndexIn(u.fileList, T[q].originalName)]_vars

\* Two uploads were in flight together; the one called second returned
\* first.  The working set holds its block c.XLS, a.xlsx and then the
\* block a.xlsx, .xlsx of the upload called first.
C16_Witness ==
  /\ Len(uploads) = 2
  /\ uploads[1].pc = "returned"
  /\ uploads[2].pc = "returned"
  /\ uploads[1].filesLength = 0
  /\ uploads[2].filesLength = 0
  /\ uploads[1].fileList = <<fileA, fileCorrupt, fileNoName>>
  /\ uploads[2].fileList = <<fileOneColumn, fileText, fileA>>
  /\ Len(files) = 4
  /\ files[1].originalName = "c.XLS"
  /\ files[2].originalName = "a.xlsx"
  /\ files[3].originalName = "a.xlsx"
  /\ files[4].originalName = ".xlsx"

(***************************************************************************)
(* C17 (as stated): mutation of the working set and export never           *)
(* interleave: while an export call has not yet ended (it is suspended in  *)
(* a render, a delay or the serialization), no upload and no removal takes *)
(* effect on the working set and no further export call starts.  The       *)
(* handlers are async and nothing on the page is disabled while one is     *)
(* suspended.                                                              *)
(***************************************************************************)
C17_NoInterleavingAsStated ==
  [][(\E k \in Calls : exports[k].pc # "returned") =>
       /\ files' = files
       /\ Len(exports') = Len(exports)]_vars

(***************************************************************************)
(* C18: in archive export every artifact of every table is put into the    *)
(* one archive before it is serialized; the archive is serialized once,    *)
(* after the last insertion, and saveAs is called once, right after the    *)
(* serialization, with what was inserted; the call never awaits a delay.   *)
(***************************************************************************)
C18_ArchiveOrder ==
  \A k \in Calls :
    LET x == exports[k]
        G == Events(x, "generateAsync")
        S == Events(x, "saveZip")
        F == Events(x, "file")
    IN  x.mode = "zip" =>
          /\ Events(x, "delay") = <<>>
          /\ Events(x, "saveAs") = <<>>
          /\ Len(G) <= 1
          /\ Len(S) <= Len(G)
          /\ \A p, q \in 1..Len(x.log) :
               (p < q /\ x.log[p].ev \in {"generateAsync", "saveZip"}) =>
                 x.log[q].ev \notin {"render", "file", "generateAsync"}
          /\ \A p \in 1..Len(x.log) :
               x.log[p].ev = "saveZip" =>
                 /\ p > 1
                 /\ x.log[p - 1].ev = "generateAsync"
                 /\ \A q \in 1..Len(F) :
                      \E r \in 1..Len(x.log[p].entries) :
                        /\ x.log[p].entries[r].name = "converted_files/" \o F[q].name
                        /\ \E q2 \in 1..Len(F) :
                             /\ F[q2].name = F[q].name
                             /\ x.log[p].entries[r].doc = F[q2].doc
          /\ Len(G) = 1 => Len(F) = Len(Expected(x))
          /\ Succeeded(x) => Len(G) = 1 /\ Len(S) = 1

\* An archive call with splitting on has put the two pairs of one table
\* and the one pair of another into the archive, serialized it and saved
\* it with its three entries.
C18_Witness ==
  \E k \in Calls :
    LET x == exports[k]
    IN  /\ x.mode = "zip"
        /\ x.splitColumns
        /\ Succeeded(x)
        /\ Len(Events(x, "file")) = 3
        /\ Len(x.log) = 9
        /\ x.log[7].ev = "generateAsync"
        /\ x.log[8].ev = "saveZip"
        /\ Len(x.log[8].entries) = 3

(***************************************************************************)
(* C19 (as stated): when an upload adds at least one table, the selection  *)
(* index afterwards denotes the first table that upload added, however the *)
(* upload's reads interleave with removals and with other uploads.         *)
(* handleFilesUpload sets the index to the files.length it saw when it was *)
(* called.                                                                 *)
(***************************************************************************)
C19_SelectsFirstAddedAsStated ==
  [][\A k \in Handlers :
       (Returns(k) /\ Len(uploads'[k].newFiles) > 0) =>
         /\ selectedFileIndex' = Len(files)
         /\ selectedFileIndex' + 1 \in 1..Len(files')
         /\ files'[selectedFileIndex' + 1] = uploads'[k].newFiles[1]]_vars

(***************************************************************************)
(* C20 (as stated): in every reachable state with a non-empty working set  *)
(* 0 <= selectedFileIndex < files.length, after any interleaving of        *)
(* uploads, removals and tab selections; so no current-file export called  *)
(* with tables loaded is refused with 'No file selected!'.                 *)
(***************************************************************************)
C20_SelectionInRangeAsStated ==
  /\ Len(files) > 0 => selectedFileIndex \in 0..(Len(files) - 1)
  /\ \A k \in Calls :
       LET x == exports[k]
       IN  (x.mode = "current" /\ Len(x.files) > 0) =>
             \A p \in 1..Len(x.log) :
               x.log[p] # [ev |-> "alert", msg |-> "No file selected!"]

(***************************************************************************)
(* C21 (as stated): removing a table removes exactly that table and keeps  *)
(* the others in their order; when the removed table is not the selected   *)
(* one, the table selected after the removal is the table that was         *)
(* selected before it.  The handler keeps the index, not the table, unless *)
(* the index falls off the end.                                            *)
(***************************************************************************)
C21_RemovalKeepsSelectedTableAsStated ==
  [][Len(files') < Len(files) =>
       \E index \in 0..(Len(files) - 1) :
         /\ files' = SubSeq(files, 1, index) \o SubSeq(files, index + 2, Len(files))
         /\ (selectedFileIndex \in 0..(Len(files) - 1) /\ selectedFileIndex # index) =>
              /\ selectedFileIndex' \in 0..(Len(files') - 1)
              /\ files'[selectedFileIndex' + 1] = files[selectedFileIndex + 1]]_vars

(***************************************************************************)
(* Vocabulary of C22: what a call made on a given working set, selection   *)
(* and options delivers, written from those four values alone.             *)
(***************************************************************************)
\* The state a call works on.
Snapshot(x) ==
  [files |-> x.files, selectedFileIndex |-> x.selectedFileIndex,
   transpose |-> x.transpose, splitColumns |-> x.splitColumns, mode |-> x.mode]

\* The group name of the pair built from column col of table i.
GroupNameOf(x, a) ==
  LET cell == GCell(x.files[a.i + 1].data, x.transpose, 0, a.col)
  IN  IF TextOf(cell) = "" \/ (cell.t = "number" /\ cell.n = 0)
      THEN "column" \o NumToStr(a.col + 1)
      ELSE TextOf(cell)

\* The artifacts of the call, in order: names and contents.
ArtifactsOf(x) ==
  LET E == Expected(x)
  IN  [p \in 1..Len(E) |->
         LET file == x.files[E[p].i + 1]
             g == GroupNameOf(x, E[p])
             base == IF file.name # "" THEN file.name
                     ELSE IF x.mode = "current" THEN "converted"
                     ELSE "converted_" \o NumToStr(E[p].i + 1)
         IN  IF x.splitColumns
             THEN [name |-> file.name \o "_" \o g \o ".docx",
                   doc |-> [title |-> "Packing Sheet " \o g, rows |-> E[p].rows]]
             ELSE [name |-> base \o ".docx",
                   doc |-> [title |-> "Packing Sheet", rows |-> E[p].rows]]]

(***************************************************************************)
(* C22: the artifacts an export call delivers (how many, in which order,   *)
(* under which names, with which contents) are those determined by the     *)
(* working set, the selection index and the options as they were when the  *)
(* call was made: the call works on that state to its end, whatever        *)
(* uploads, removals, tab selections and option toggles happen while it is *)
(* suspended; and no step of the call changes the working set, the         *)
(* selection or the options.                                               *)
(***************************************************************************)
C22_ExportWorksOnSnapshot ==
  /\ [](\A k \in Calls :
          LET x == exports[k]
              D == Deliveries(x)
              A == ArtifactsOf(x)
          IN  /\ Len(D) <= Len(A)
              /\ Succeeded(x) => Len(D) = Len(A)
              /\ \A p \in 1..Len(D) :
                   D[p].name = A[p].name /\ D[p].doc = A[p].doc)
  /\ [][/\ \A k \in Calls : Snapshot(exports'[k]) = Snapshot(exports[k])
        /\ Len(exports') > Len(exports) =>
             /\ Len(exports') = Len(exports) + 1
             /\ LET x == exports'[Len(exports')]
                IN  /\ x.files = files
                    /\ x.selectedFileIndex = selectedFileIndex
                    /\ x.transpose = transpose
                    /\ x.splitColumns = splitColumns
        /\ exports' # exports =>
             UNCHANGED <<files, selectedFileIndex, transpose, splitColumns>>]_vars

\* An all-files call made with transpose on has delivered its first
\* artifact and is rendering its second, built with transpose on, while a
\* table has since been removed and transpose switched off.
C22_Witness ==
  \E k \in Calls :
    LET x == exports[k]
        D == Deliveries(x)
    IN  /\ x.mode = "all"
        /\ x.pc = "toBlob"
        /\ Len(D) = 1
        /\ x.transpose
        /\ ~transpose
        /\ Len(files) < Len(x.files)
        /\ x.doc = ArtifactsOf(x)[2].doc
        /\ x.doc.rows # WholeRows(x.files[2].data, FALSE)

====
